---- MODULE Spec2Model ----
(***************************************************************************)
(* The ECS runner plugin (src/unnamed/part_000, lines 255-659): one run of *)
(* the async main function and of the live log tailer it starts.           *)
(*                                                                         *)
(* The JavaScript is single-threaded and runs to completion between two   *)
(* awaits, so every action below is "a pending await resolves, and the     *)
(* code runs up to the next await (or to its return)".  pc names the await *)
(* the main function is suspended at, tailPc the await the tailer is       *)
(* suspended at.  A call to a collaborator is made when the await is       *)
(* entered; it is answered by the action that leaves the await.            *)
(***************************************************************************)
EXTENDS Integers, Sequences, FiniteSets, TLC

VARIABLES
    stdin,                  \* the JSON lines readJobJSON finds on stdin (none or one)
    pc,                     \* await point of the main async function
    stdout,                 \* what the run has written to stdout, in order
    registeredTaskDefArn,   \* let registeredTaskDefArn (L468)
    runReq,                 \* the RunTask requests sent (L509-L539)
    taskArn,                \* let taskArn (L537)
    running,                \* let running (L557), read through isRunningRef
    elapsed,                \* (Date.now() - start) / 1000 (L574, L594)
    lastStatus,             \* let lastStatus (L575)
    stopCode,               \* let stopCode (L576)
    containerStatuses,      \* let containerStatuses (L577)
    tailPc,                 \* await point of streamCwLogsUntilStopped
    nextToken,              \* let nextToken (L398)
    streamFound,            \* let streamFound (L399)
    tailIters,              \* iterations of the tailer's while loop begun so far
    sweepReq,               \* the GetLogEvents requests of the final fetch (L447-L453)
    stderr,                 \* the messages written to stderr (which ones, not how often)
    logStream,              \* the messages of the events in the task's log stream, oldest first
    emitted,                \* history: which event of the stream each printed line came
                            \*          from, and which fetch printed it (tail, sweep, post)
    calls,                  \* history: calls made so far, per collaborator operation
    deregArg,               \* history: the handles passed to DeregisterTaskDefinition
    descArg,                \* history: the handles passed to DescribeTasks
    postReq,                \* history: the GetLogEvents requests of the post-run fetch (L624-L629)
    lastCC,                 \* history: last response to register / runTask / describeTask
    absorbed                \* history: the catch blocks that caught a non-fatal failure so far
                            \*          (tail, sweep, post, deregister)

vars == << stdin, pc, stdout, registeredTaskDefArn, runReq, taskArn, running, elapsed,
           lastStatus, stopCode, containerStatuses, tailPc, nextToken, streamFound,
           tailIters, sweepReq, stderr, logStream, emitted, calls, deregArg, descArg,
           postReq, lastCC, absorbed >>

mainVars == << registeredTaskDefArn, runReq, taskArn, lastStatus, stopCode, containerStatuses >>
tailVars == << tailPc, nextToken, streamFound, tailIters, sweepReq >>
errVars == << stderr, absorbed >>

----------------------------------------------------------------------------
(* Bounds of the model *)

MaxTimeout == 1       \* wait_timeout_sec ranges over 1..MaxTimeout
MaxContainers == 2    \* containers in a DescribeTasks response
MaxTailIters == 2     \* iterations of the tailer's while loop
MaxToken == 1         \* distinct continuation tokens the log API hands out
MaxEvents == 2        \* events the task writes to its log stream

----------------------------------------------------------------------------
(* Values *)

Null == "null"
Undefined == "undefined"
NewTdArn == "arn:td/registered"
RefTd == "td:3"
TaskArn1 == "arn:task/1"
NullExit == -1        \* exitCode: null of a container status (L588)

ToUpperCase(s) ==
    CASE s = "fargate" -> "FARGATE"
      [] s = "ec2" -> "EC2"
      [] OTHER -> s

Or(a, dflt) == IF a = "" THEN dflt ELSE a      \* the JavaScript a || dflt on strings

Min(a, b) == IF a < b THEN a ELSE b

\* The job parameters the model draws from (job.params).
Params ==
    [ ecs_cluster : {"", "c1"},
      mode : {"", "image", "other"},
      task_definition : {"", RefTd},
      image : {"", "img"},
      launch_type : {"", "ec2"},
      requires_compatibilities : {"", "FARGATE", "EC2"},
      subnets : {<<>>, <<"s1">>},
      command : {"String"},
      tail_logs : BOOLEAN,
      cw_log_group : {"", "lg"},
      stream_logs_live : BOOLEAN,
      stream_log_start_from_head : BOOLEAN,
      log_include_regex : {"", "a"},
      log_exclude_regex : {"", "b"},
      log_fetch_limit : {0, 1},
      keep_task_definition : BOOLEAN,
      wait_timeout_sec : 1..MaxTimeout ]

\* One job whose command is a JSON array instead of a string (L359-L361).
ArrayCommandParams ==
    [ ecs_cluster |-> "c1", mode |-> "", task_definition |-> RefTd, image |-> "",
      launch_type |-> "", requires_compatibilities |-> "", subnets |-> <<"s1">>,
      command |-> "Array", tail_logs |-> FALSE, cw_log_group |-> "",
      stream_logs_live |-> FALSE, stream_log_start_from_head |-> FALSE,
      log_include_regex |-> "", log_exclude_regex |-> "", log_fetch_limit |-> 0,
      keep_task_definition |-> FALSE, wait_timeout_sec |-> 1 ]

\* image is read only in image mode (L387, L473), keep_task_definition only
\* when a definition was registered (L644), stream_log_start_from_head only
\* by the live tailer (L422) and log_fetch_limit only by the post-run fetch
\* (L628): jobs that differ in a field the run never reads are the same run, and
\* one of them is kept.
ReadFields(q) ==
    /\ (q.mode # "image" => q.image = "")
    /\ (q.mode # "image" => ~q.keep_task_definition)
    /\ (~(q.stream_logs_live /\ q.cw_log_group # "") => ~q.stream_log_start_from_head)
    /\ (~(q.tail_logs /\ q.cw_log_group # "") => q.log_fetch_limit = 0)

\* The parameters fall into groups that the code never reads together: those
\* read up to the RunTask call (cluster, references, launch type, subnets), the
\* timeout the poll loop reads, the log options, and among these the one only
\* the live tailer reads (stream_log_start_from_head) and those read after the
\* tailer has returned (tail_logs, keep_task_definition of a registered
\* definition).  The model takes every mode with every combination of one
\* group, the other groups at their defaults (a FARGATE launch with a subnet,
\* a timeout of 1, no log option); a tailer that starts from the head is
\* combined with the defaults of what is read after it.
LaunchDefaults(q) ==
    /\ q.ecs_cluster = "c1"
    /\ q.launch_type = ""
    /\ q.requires_compatibilities = ""
    /\ q.subnets = <<"s1">>

LogDefaults(q) ==
    /\ ~q.tail_logs
    /\ q.cw_log_group = ""
    /\ ~q.stream_logs_live

WaitDefaults(q) == q.wait_timeout_sec = 1

TailDefaults(q) == ~q.stream_log_start_from_head

FilterDefaults(q) ==
    /\ q.log_include_regex = ""
    /\ q.log_exclude_regex = ""

FetchDefaults(q) == q.log_fetch_limit = 0

PostDefaults(q) ==
    /\ ~q.tail_logs
    /\ q.mode # "image"

Jobs == [params : {q \in Params : /\ ReadFields(q)
                                  /\ \/ LaunchDefaults(q) /\ LogDefaults(q)
                                     \/ LaunchDefaults(q) /\ WaitDefaults(q)
                                     \/ LogDefaults(q) /\ WaitDefaults(q)
                                  /\ TailDefaults(q) \/ PostDefaults(q)
                                  /\ FilterDefaults(q) /\ FetchDefaults(q)}
                  \cup {ArrayCommandParams}]

\* The jobs of the runs that are followed through their log output: a launch by
\* reference with a log group, every combination of the log options and filters
\* with the default fetch limit, and a post-run fetch of one event without a
\* tailer and without filters.
LogJobs == [params : {q \in Params : /\ ReadFields(q)
                                     /\ LaunchDefaults(q) /\ WaitDefaults(q)
                                     /\ q.mode = "" /\ q.task_definition = RefTd
                                     /\ q.command = "String"
                                     /\ q.cw_log_group = "lg"
                                     /\ q.stream_logs_live \/ q.tail_logs
                                     /\ \/ FetchDefaults(q)
                                        \/ FilterDefaults(q) /\ ~q.stream_logs_live}]

job == stdin[1]
p == job.params

cluster == p.ecs_cluster
launchType == ToUpperCase(Or(p.launch_type, "FARGATE"))
mode == Or(p.mode, "task_definition")
subnets == p.subnets
tailLogs == p.tail_logs
logGroup == p.cw_log_group
streamLogsLive == p.stream_logs_live
streamFromHead == p.stream_log_start_from_head
includeRegex == p.log_include_regex
excludeRegex == p.log_exclude_regex
waitTimeoutSec == p.wait_timeout_sec
\* L324: Number(p.log_fetch_limit || 1000)
logFetchLimit == IF p.log_fetch_limit = 0 THEN 1000 ELSE p.log_fetch_limit
taskDefinition == p.task_definition
image == p.image
requiresCompatibilities == ToUpperCase(Or(p.requires_compatibilities, launchType))

liveTailPromise == tailPc # "none"

\* println({ complete: 1, code, description }) and the final record with details;
\* details is <<>> in a record that has no details key
Outcome(code, description) ==
    [complete |-> 1, code |-> code, description |-> description, details |-> <<>>]
OutcomeWithDetails(code, description, arn, containers) ==
    [complete |-> 1, code |-> code, description |-> description,
     details |-> << [taskArn |-> arn, containers |-> containers] >>]

println(obj) == stdout' = Append(stdout, obj)

\* process.stdout.write(text) of the main function: a plain line, not a record
Line(text) == [line |-> text]
write(text) == stdout' = Append(stdout, Line(text))

\* The RunOutcome records among what was written
IsRecord(e) == "complete" \in DOMAIN e
Records == SelectSeq(stdout, IsRecord)

\* A catch block that reports on stderr (L440, L639, L649), and one that is empty
\* (L461)
Caught(kind, message) ==
    /\ stderr' = stderr \cup {message}
    /\ absorbed' = absorbed \cup {kind}
Swallowed(kind) ==
    /\ stderr' = stderr
    /\ absorbed' = absorbed \cup {kind}

\* new GetLogEventsCommand({ ..., nextToken, startFromHead, limit: 10000 }) of the
\* tailer (L418-L424, L447-L453); group, stream name and limit are fixed
GetLogEventsReq(token, fromHead) == [nextToken |-> token, startFromHead |-> fromHead]

\* Mutant of PostLogEventsReq: the post-run request does not ask for the head.
PostLogEventsReq_FromTail == [startFromHead |-> FALSE, limit |-> logFetchLimit]

\* new GetLogEventsCommand({ ..., startFromHead: true, limit: logFetchLimit }) of
\* the post-run fetch (L624-L629): it has no nextToken
PostLogEventsReq == [startFromHead |-> TRUE, limit |-> logFetchLimit]

\* The messages the task logs, and regex.test(line) for the patterns of the
\* model: a pattern is one letter and matches the lines that contain it
Messages == {"a", "b", "ab"}
Letters(line) ==
    CASE line = "a" -> {"a"}
      [] line = "b" -> {"b"}
      [] line = "ab" -> {"a", "b"}
      [] OTHER -> {}
Test(regex, line) == regex \in Letters(line)

\* Mutant of shouldPrintLogLine: a line that matches the include pattern is
\* printed without a look at the exclude pattern.
shouldPrintLogLine_IncludeWins(line) ==
    IF includeRegex # "" /\ Test(includeRegex, line) THEN TRUE
    ELSE IF includeRegex # "" THEN FALSE
    ELSE IF excludeRegex # "" /\ Test(excludeRegex, line) THEN FALSE
    ELSE TRUE

\* L337-L341
shouldPrintLogLine(line) ==
    IF includeRegex # "" /\ ~Test(includeRegex, line) THEN FALSE
    ELSE IF excludeRegex # "" /\ Test(excludeRegex, line) THEN FALSE
    ELSE TRUE

\* L426-L432 (also L454-L460, L630-L634): the events whose message is written
Printed(events) ==
    SelectSeq(events, LAMBDA e : e.message # Null /\ shouldPrintLogLine(e.message))
LinesOf(events) == [i \in 1..Len(events) |-> Line(events[i].message)]
MarksOf(who, events) == [i \in 1..Len(events) |-> [by |-> who, id |-> events[i].id]]

\* A GetLogEvents response as the code reads it: an error, or events and a
\* nextForwardToken (0: none).  Without a log stream model the answers carry
\* no events and any token.
AnyFetchResponses ==
    {[kind |-> "error"]} \cup [kind : {"ok"}, events : {<<>>}, token : 0..MaxToken]

\* The Log Aggregation API over the stream: a cursor marks how many events of
\* the stream lie before it (token n + 1: n events); a fetch returns the events
\* after its cursor, or the whole stream when it has none (the stream of the
\* model is shorter than the limit of 10000 the tailer passes), and the cursor
\* after the last event of the stream.
EventsAfter(n) ==
    [i \in 1..(Len(logStream) - n) |-> [id |-> n + i, message |-> logStream[n + i]]]
StoreFetchResponses(req) ==
    {[kind |-> "error"],
     [kind |-> "ok",
      events |-> EventsAfter(IF req.nextToken # 0 THEN req.nextToken - 1 ELSE 0),
      token |-> Len(logStream) + 1]}

\* A fetch without a cursor returns at most limit events: the first of the
\* stream when it starts from the head, the last otherwise.
EventsFromEnd(fromHead, limit) ==
    LET k == Min(limit, Len(logStream))
        skipped == IF fromHead THEN 0 ELSE Len(logStream) - k
    IN  [i \in 1..k |-> [id |-> skipped + i, message |-> logStream[skipped + i]]]
StorePostResponses(req) ==
    {[kind |-> "error"],
     [kind |-> "ok", events |-> EventsFromEnd(req.startFromHead, req.limit), token |-> 0]}

NoCalls == [register |-> 0, runTask |-> 0, describe |-> 0, deregister |-> 0,
            tailStreams |-> 0, tailEvents |-> 0, sweep |-> 0, postStreams |-> 0, postEvents |-> 0]

\* The calls of the tailer's loop are not counted: tailStreams and tailEvents say
\* whether the loop has made such a call (0 or 1); sweep counts the final fetch.
Called(c, op) ==
    IF op \in {"tailStreams", "tailEvents"} THEN [c EXCEPT ![op] = 1] ELSE [c EXCEPT ![op] = @ + 1]

----------------------------------------------------------------------------
Start ==
    /\ pc = "readJob"
    /\ stdout = <<>>
    /\ registeredTaskDefArn = Null
    /\ runReq = <<>>
    /\ taskArn = Undefined
    /\ running = TRUE
    /\ elapsed = 0
    /\ lastStatus = "UNKNOWN"
    /\ stopCode = 1
    /\ containerStatuses = <<>>
    /\ tailPc = "none"
    /\ nextToken = 0
    /\ streamFound = FALSE
    /\ tailIters = 0
    /\ sweepReq = <<>>
    /\ stderr = {}
    /\ logStream = <<>>
    /\ emitted = <<>>
    /\ calls = NoCalls
    /\ deregArg = <<>>
    /\ descArg = {}
    /\ postReq = <<>>
    /\ lastCC = [op |-> "none"]
    /\ absorbed = {}

Init ==
    /\ stdin \in {<<>>} \cup {<<j>> : j \in Jobs}
    /\ Start

\* A run that is followed through its log output
LogInit ==
    /\ stdin \in {<<j>> : j \in LogJobs}
    /\ Start

----------------------------------------------------------------------------
(* The tail of the main function, from the final record backwards.  Each   *)
(* segment runs until the next await; out is what stdout holds so far, c   *)
(* the call history so far, sc and cs the stop code and container statuses *)
(* the poll loop has produced.                                             *)

\* Mutant of FinalRecord: a timeout is reported as a success.
FinalRecord_TimeoutAsSuccess(sc, cs) ==
    IF sc \in {0, 124}
    THEN OutcomeWithDetails(0, "ECS task stopped OK", taskArn, cs)
    ELSE OutcomeWithDetails(sc, "ECS task stopped with non-zero exit", taskArn, cs)

\* L653-L658: the final JSON line
FinalRecord(sc, cs) ==
    IF sc = 0
    THEN OutcomeWithDetails(0, "ECS task stopped OK", taskArn, cs)
    ELSE OutcomeWithDetails(sc, "ECS task stopped with non-zero exit", taskArn, cs)

Final(out, c, sc, cs) ==
    /\ stdout' = Append(out, FinalRecord(sc, cs))
    /\ pc' = "done"
    /\ calls' = c
    /\ deregArg' = deregArg

\* Mutant of Cleanup: the task definition that was run is deregistered, whether
\* or not this run registered it.
Cleanup_AnyTaskDef(out, c, sc, cs) ==
    IF runReq # <<>> /\ ~p.keep_task_definition
    THEN /\ pc' = "deregister"
         /\ calls' = Called(c, "deregister")
         /\ deregArg' = Append(deregArg, runReq[1].taskDefinition)
         /\ stdout' = out
    ELSE Final(out, c, sc, cs)

\* L643-L651: cleanup of the one-off task definition
Cleanup(out, c, sc, cs) ==
    IF registeredTaskDefArn # Null /\ ~p.keep_task_definition
    THEN /\ pc' = "deregister"
         /\ calls' = Called(c, "deregister")
         /\ deregArg' = Append(deregArg, registeredTaskDefArn)
         /\ stdout' = out
    ELSE Final(out, c, sc, cs)

\* Mutant of PostRun: the post-run fetch is guarded by tail_logs alone.
PostRun_IgnoresLogGroup(c, sc, cs) ==
    IF tailLogs
    THEN /\ pc' = "postStreams"
         /\ calls' = Called(c, "postStreams")
         /\ UNCHANGED << stdout, deregArg >>
    ELSE Cleanup(stdout, c, sc, cs)

\* L611-L622: post-run logs, up to the DescribeLogStreams call
PostRun(c, sc, cs) ==
    IF tailLogs /\ logGroup # ""
    THEN /\ pc' = "postStreams"
         /\ calls' = Called(c, "postStreams")
         /\ UNCHANGED << stdout, deregArg >>
    ELSE Cleanup(stdout, c, sc, cs)

\* Mutant of StopTailAndJoin: the signal is left as it is.
StopTailAndJoin_LeavesRunning(c, sc, cs) ==
    /\ running' = running
    /\ IF liveTailPromise
       THEN /\ pc' = "join"
            /\ calls' = c
            /\ UNCHANGED << stdout, deregArg >>
       ELSE PostRun(c, sc, cs)

\* L607-L609: stop the live tail and wait for it to finish
StopTailAndJoin(c, sc, cs) ==
    /\ running' = FALSE
    /\ IF liveTailPromise
       THEN /\ pc' = "join"
            /\ calls' = c
            /\ UNCHANGED << stdout, deregArg >>
       ELSE PostRun(c, sc, cs)

----------------------------------------------------------------------------
(* The head of the main function *)

\* L506-L539: build the RunTask request, check the subnets, send it
BuildAndRun(c, arn) ==
    LET taskDefToRun == IF arn # Null THEN arn ELSE taskDefinition
        fargate == requiresCompatibilities = "FARGATE"
    IN  IF fargate /\ subnets = <<>>
        THEN /\ println(Outcome(6, "FARGATE requires subnets (params.subnets)"))
             /\ pc' = "done"
             /\ calls' = c
             /\ runReq' = runReq
        ELSE /\ runReq' = Append(runReq, [taskDefinition |-> taskDefToRun,
                                          launchType |-> launchType,
                                          networkConfiguration |-> fargate])
             /\ pc' = "runTask"
             /\ calls' = Called(c, "runTask")
             /\ stdout' = stdout

\* L291-L295: readJobJSON rejects
ReadJobFails ==
    /\ pc = "readJob"
    /\ stdin = <<>>
    /\ println(Outcome(1, "Failed to parse job JSON"))
    /\ pc' = "done"
    /\ UNCHANGED << stdin, descArg, postReq, logStream, emitted, mainVars, running, elapsed, tailVars, calls, deregArg, lastCC, errVars >>

\* L359-L361: (p.command || '').trim() on an array throws a TypeError outside
\* every try block: the async function rejects and nothing is printed.
ReadJobThrows ==
    /\ pc = "readJob"
    /\ stdin # <<>>
    /\ p.command = "Array"
    /\ pc' = "crashed"
    /\ UNCHANGED << stdin, descArg, postReq, logStream, emitted, stdout, mainVars, running, elapsed, tailVars, calls, deregArg,
                    lastCC, errVars >>

\* Mutant of Precondition: the check of the task-definition reference is missing.
Precondition_NoReferenceCheck ==
    CASE cluster = "" -> Outcome(2, "Missing ecs_cluster parameter")
      [] cluster # "" /\ mode = "image" /\ image = ""
           -> Outcome(4, "mode=image but image is empty")
      [] OTHER -> Outcome(0, "ok")

\* L379-L390: the precondition checks, in the order of the code
Precondition ==
    CASE cluster = "" -> Outcome(2, "Missing ecs_cluster parameter")
      [] cluster # "" /\ mode = "task_definition" /\ taskDefinition = ""
           -> Outcome(3, "mode=task_definition but task_definition is empty")
      [] cluster # "" /\ ~(mode = "task_definition" /\ taskDefinition = "")
           /\ mode = "image" /\ image = ""
           -> Outcome(4, "mode=image but image is empty")
      [] OTHER -> Outcome(0, "ok")

\* L297-L390: parameters read, a precondition fails
ReadJobRejects ==
    /\ pc = "readJob"
    /\ stdin # <<>>
    /\ p.command # "Array"
    /\ Precondition.code # 0
    /\ println(Precondition)
    /\ pc' = "done"
    /\ UNCHANGED << stdin, descArg, postReq, logStream, emitted, mainVars, running, elapsed, tailVars, calls, deregArg, lastCC, errVars >>

\* L467-L497 (image mode: RegisterTaskDefinition is sent) or L506-L539
ReadJobProceeds ==
    /\ pc = "readJob"
    /\ stdin # <<>>
    /\ p.command # "Array"
    /\ Precondition.code = 0
    /\ IF mode = "image"
       THEN /\ pc' = "register"
            /\ calls' = Called(calls, "register")
            /\ UNCHANGED << stdout, runReq >>
       ELSE BuildAndRun(calls, Null)
    /\ UNCHANGED << stdin, descArg, postReq, logStream, emitted, registeredTaskDefArn, taskArn, lastStatus, stopCode,
                    containerStatuses, running, elapsed, tailVars, deregArg, lastCC, errVars >>

\* Mutant of RegisterFailed: the record is printed but the return is missing, so
\* the run goes on to RunTask with the by_reference field.
RegisterFailed_FallsThrough ==
    /\ println(Outcome(5, "Failed to register task definition"))
    /\ registeredTaskDefArn' = registeredTaskDefArn
    /\ runReq' = Append(runReq, [taskDefinition |-> taskDefinition, launchType |-> launchType,
                                 networkConfiguration |-> requiresCompatibilities = "FARGATE"])
    /\ pc' = "runTask"
    /\ calls' = Called(calls, "runTask")

\* L501-L504: the catch block of the registration
RegisterFailed ==
    /\ println(Outcome(5, "Failed to register task definition"))
    /\ pc' = "done"
    /\ UNCHANGED << registeredTaskDefArn, runReq, calls >>

\* L488-L504: RegisterTaskDefinition answers
RegisterResponses == {[op |-> "register", kind |-> "error"],
                      [op |-> "register", kind |-> "noArn"],
                      [op |-> "register", kind |-> "ok"]}

RegisterReturns ==
    /\ pc = "register"
    /\ \E resp \in RegisterResponses :
        /\ lastCC' = resp
        /\ IF resp.kind = "error"
           THEN RegisterFailed
           ELSE LET arn == IF resp.kind = "ok" THEN NewTdArn ELSE Null
                IN  /\ registeredTaskDefArn' = arn
                    /\ BuildAndRun(calls, arn)
    /\ UNCHANGED << stdin, descArg, postReq, logStream, emitted, taskArn, lastStatus, stopCode, containerStatuses, running, elapsed,
                    tailVars, deregArg, errVars >>

\* L539-L554: RunTask answers; L556-L580: the tailer is started and the first
\* DescribeTasks is sent
RunTaskResponses ==
    {[op |-> "runTask", kind |-> "error"]}
    \cup [op : {"runTask"}, kind : {"ok"}, failures : BOOLEAN, taskArn : {Undefined, TaskArn1}]

\* Mutant of LaunchFailure: reported failures are thrown into the catch block and
\* come out as a RunTask error.
LaunchFailure_FailuresAsError(resp) ==
    CASE resp.kind = "error" -> Outcome(9, "RunTask error")
      [] resp.kind = "ok" /\ resp.failures -> Outcome(9, "RunTask error")
      [] resp.kind = "ok" /\ ~resp.failures /\ resp.taskArn = Undefined
           -> Outcome(8, "ECS returned no task ARN")
      [] OTHER -> Outcome(0, "ok")

\* Mutant of LaunchFailure: the failure list is read only when the response
\* holds no task.
LaunchFailure_TaskBeforeFailures(resp) ==
    CASE resp.kind = "error" -> Outcome(9, "RunTask error")
      [] resp.kind = "ok" /\ resp.taskArn = Undefined /\ resp.failures
           -> Outcome(7, "RunTask failures")
      [] resp.kind = "ok" /\ resp.taskArn = Undefined /\ ~resp.failures
           -> Outcome(8, "ECS returned no task ARN")
      [] OTHER -> Outcome(0, "ok")

\* L540-L553: the three ways a launch fails, in the order of the code
LaunchFailure(resp) ==
    CASE resp.kind = "error" -> Outcome(9, "RunTask error")
      [] resp.kind = "ok" /\ resp.failures -> Outcome(7, "RunTask failures")
      [] resp.kind = "ok" /\ ~resp.failures /\ resp.taskArn = Undefined
           -> Outcome(8, "ECS returned no task ARN")
      [] OTHER -> Outcome(0, "ok")

RunTaskReturns ==
    /\ pc = "runTask"
    /\ \E resp \in RunTaskResponses :
        /\ lastCC' = resp
        /\ IF LaunchFailure(resp).code # 0
           THEN /\ println(LaunchFailure(resp))
                /\ pc' = "done"
                /\ UNCHANGED << taskArn, tailVars, calls, elapsed, descArg >>
           ELSE /\ taskArn' = resp.taskArn
                /\ descArg' = descArg \cup {resp.taskArn}
                /\ write("Started ECS task")
                /\ IF streamLogsLive /\ logGroup # ""
                   THEN /\ tailPc' = "discover"
                        /\ tailIters' = 1
                        /\ calls' = Called(Called(calls, "tailStreams"), "describe")
                        /\ UNCHANGED << nextToken, streamFound, sweepReq >>
                   ELSE /\ calls' = Called(calls, "describe")
                        /\ UNCHANGED tailVars
                /\ elapsed' = 0
                /\ pc' = "describe"
    /\ UNCHANGED << stdin, postReq, logStream, emitted, registeredTaskDefArn, runReq, running, lastStatus,
                    stopCode, containerStatuses, deregArg, errVars >>

\* A container of a DescribeTasks response: its exitCode is a number or is absent.
ExitCodes == {<<>>, <<0>>, <<2>>}
\* The code copies the containers in their order (L586-L590) and derives the
\* stop code with every() (L591), which does not depend on the order: of the
\* permutations of a list, the one with exit code 0 first and absent exit
\* codes last is taken.
Rank(code) == IF code = <<0>> THEN 0 ELSE IF code = <<>> THEN 2 ELSE 1
ContainerLists ==
    {l \in UNION {[1..n -> [exitCode : ExitCodes]] : n \in 0..MaxContainers} :
        \A i \in 1..(Len(l) - 1) : Rank(l[i].exitCode) <= Rank(l[i + 1].exitCode)}

DescribeResponses ==
    {[op |-> "describe", kind |-> "error"], [op |-> "describe", kind |-> "noTask"]}
    \cup [op : {"describe"}, kind : {"task"}, lastStatus : {"RUNNING", "STOPPED"},
          containers : {<<>>} \cup {<<l>> : l \in ContainerLists}]

\* L586-L590: (task.containers || []).map(c => ({ exitCode: number or null }))
MapContainers(containers) ==
    LET list == IF containers = <<>> THEN <<>> ELSE containers[1]
    IN  [i \in 1..Len(list) |->
            [exitCode |-> IF list[i].exitCode = <<>> THEN NullExit ELSE list[i].exitCode[1]]]

\* Mutant of StopCodeOf: a missing exit code is taken for success (c.exitCode == 0
\* after a conversion that maps null to 0, or !c.exitCode).
StopCodeOf_NullIsZero(statuses) ==
    IF \A i \in 1..Len(statuses) : statuses[i].exitCode \in {0, NullExit} THEN 0 ELSE 1

\* L591: containerStatuses.every(c => c.exitCode === 0) ? 0 : 1
StopCodeOf(statuses) ==
    IF \A i \in 1..Len(statuses) : statuses[i].exitCode = 0 THEN 0 ELSE 1

\* Mutant of TimedOut: the comparison is off by one time unit.
TimedOut_OffByOne == elapsed > waitTimeoutSec + 1

\* Mutant of TimedOut: the comparison is not strict.
TimedOut_NotStrict == elapsed >= waitTimeoutSec

\* L594: (Date.now() - start) / 1000 > waitTimeoutSec
TimedOut == elapsed > waitTimeoutSec

\* What the code reads of a DescribeTasks response: the containers only of a
\* STOPPED task (L585-L590).
ReadOf(resp) ==
    IF resp.kind = "task" /\ resp.lastStatus # "STOPPED"
    THEN [op |-> "describe", kind |-> "task", lastStatus |-> resp.lastStatus]
    ELSE resp

\* Mutant of PollFailed: the error is logged and the loop polls again.
PollFailed_Retries(resp) ==
    /\ pc' = "pollSleep"
    /\ UNCHANGED << stdout, running, lastStatus, stopCode, containerStatuses, calls, deregArg >>

\* Mutant of PollFailed: a failed poll launches the task again.
PollFailed_Relaunches(resp) ==
    /\ pc' = "runTask"
    /\ calls' = Called(calls, "runTask")
    /\ UNCHANGED << stdout, running, lastStatus, stopCode, containerStatuses, deregArg >>

\* Mutant of PollFailed: the record of a missing task carries the text of an API
\* error.
PollFailed_SameMessage(resp) ==
    /\ println(Outcome(10, "Error while waiting for task to stop: API error"))
    /\ running' = FALSE
    /\ pc' = IF liveTailPromise THEN "joinErr" ELSE "done"
    /\ UNCHANGED << lastStatus, stopCode, containerStatuses, calls, deregArg >>

\* L600-L605: the catch block of the poll loop
PollFailed(resp) ==
    /\ println(Outcome(10, IF resp.kind = "noTask"
          THEN "Error while waiting for task to stop: DescribeTasks returned no task"
          ELSE "Error while waiting for task to stop: API error"))
    /\ running' = FALSE
    /\ pc' = IF liveTailPromise THEN "joinErr" ELSE "done"
    /\ UNCHANGED << lastStatus, stopCode, containerStatuses, calls, deregArg >>

\* L583-L593: the task is STOPPED
TaskStopped(resp) ==
    LET cs == MapContainers(resp.containers)
    IN  /\ lastStatus' = resp.lastStatus
        /\ containerStatuses' = cs
        /\ stopCode' = StopCodeOf(cs)
        /\ StopTailAndJoin(calls, StopCodeOf(cs), cs)

\* L594-L597: the task is not STOPPED and the timeout has passed
PollTimedOut(resp) ==
    /\ lastStatus' = resp.lastStatus
    /\ stopCode' = 124
    /\ containerStatuses' = containerStatuses
    /\ StopTailAndJoin(calls, 124, containerStatuses)

\* L598: the task is not STOPPED, the loop sleeps
PollAgain(resp) ==
    /\ lastStatus' = resp.lastStatus
    /\ pc' = "pollSleep"
    /\ UNCHANGED << stdout, running, stopCode, containerStatuses, calls, deregArg >>

\* L580-L605: DescribeTasks answers
DescribeReturnsFrom(Responses) ==
    /\ pc = "describe"
    /\ \E resp \in Responses :
        /\ lastCC' = ReadOf(resp)
        /\ CASE resp.kind \in {"error", "noTask"} -> PollFailed(resp)
             [] resp.kind = "task" /\ resp.lastStatus = "STOPPED" -> TaskStopped(resp)
             [] resp.kind = "task" /\ resp.lastStatus # "STOPPED" /\ TimedOut -> PollTimedOut(resp)
             [] OTHER -> PollAgain(resp)
    /\ UNCHANGED << stdin, descArg, postReq, logStream, emitted, registeredTaskDefArn, runReq, taskArn, elapsed,
                    tailVars, errVars >>

DescribeReturns == DescribeReturnsFrom(DescribeResponses)

\* L598: sleep(waitPollSec * 1000) returns and the loop sends the next DescribeTasks.
\* The clock is read only by TimedOut, so it stops counting one past the timeout.
SleepSteps == {1, 2}

PollSleepReturns ==
    /\ pc = "pollSleep"
    /\ \E d \in SleepSteps : elapsed' = Min(elapsed + d, waitTimeoutSec + 1)
    /\ pc' = "describe"
    /\ calls' = Called(calls, "describe")
    /\ descArg' = descArg \cup {taskArn}
    /\ UNCHANGED << stdin, postReq, logStream, emitted, stdout, mainVars, running, tailVars, deregArg, lastCC, errVars >>

\* L603: await liveTailPromise in the catch block, then return
JoinErrReturns ==
    /\ pc = "joinErr"
    /\ tailPc = "done"
    /\ pc' = "done"
    /\ UNCHANGED << stdin, descArg, postReq, logStream, emitted, stdout, mainVars, running, elapsed, tailVars, calls, deregArg,
                    lastCC, errVars >>

\* Mutant of JoinReturns: the post-run stages start without waiting for the tailer.
JoinReturns_NoWait ==
    /\ pc = "join"
    /\ PostRun(calls, stopCode, containerStatuses)
    /\ UNCHANGED << stdin, descArg, postReq, logStream, emitted, mainVars, running, elapsed, tailVars, lastCC, errVars >>

\* L609: await liveTailPromise, then the post-run stages
JoinReturns ==
    /\ pc = "join"
    /\ tailPc = "done"
    /\ PostRun(calls, stopCode, containerStatuses)
    /\ UNCHANGED << stdin, descArg, postReq, logStream, emitted, mainVars, running, elapsed, tailVars, lastCC, errVars >>

\* L616-L640: the post-run DescribeLogStreams answers
LogStreamsResponses == {"error", "none", "found"}

PostStreamsReturns ==
    /\ pc = "postStreams"
    /\ \E resp \in LogStreamsResponses :
        CASE resp = "found" ->
               /\ pc' = "postEvents"
               /\ calls' = Called(calls, "postEvents")
               /\ postReq' = Append(postReq, PostLogEventsReq)
               /\ UNCHANGED << stdout, deregArg, errVars >>
          [] resp = "none" ->
               /\ UNCHANGED << errVars, postReq >>
               /\ Cleanup(Append(stdout, Line("(No log stream found)")),
                          calls, stopCode, containerStatuses)
          [] OTHER ->
               /\ Caught("post", "CloudWatch logs fetch failed")
               /\ postReq' = postReq
               /\ Cleanup(stdout, calls, stopCode, containerStatuses)
    /\ UNCHANGED << stdin, descArg, logStream, emitted, mainVars, running, elapsed, tailVars, lastCC >>

\* L624-L640: the post-run GetLogEvents answers
PostFetched(resp) ==
    IF resp.kind = "error"
    THEN /\ Caught("post", "CloudWatch logs fetch failed")
         /\ emitted' = emitted
         /\ Cleanup(stdout, calls, stopCode, containerStatuses)
    ELSE /\ UNCHANGED errVars
         /\ emitted' = emitted \o MarksOf("post", Printed(resp.events))
         /\ Cleanup(stdout \o LinesOf(Printed(resp.events)), calls, stopCode, containerStatuses)

PostEventsReturnsFrom(Responses) ==
    /\ pc = "postEvents"
    /\ \E resp \in Responses : PostFetched(resp)
    /\ UNCHANGED << stdin, descArg, postReq, logStream, mainVars, running, elapsed, tailVars, lastCC >>

PostEventsReturns == PostEventsReturnsFrom(AnyFetchResponses)

\* Mutant of DeregisterReturns: a failed deregistration turns the result into a
\* failure.
DeregisterReturns_FailureFatal ==
    /\ pc = "deregister"
    /\ \E ok \in BOOLEAN :
        /\ IF ok THEN UNCHANGED errVars ELSE Caught("deregister", "Deregister TD failed")
        /\ Final(IF ok THEN Append(stdout, Line("Deregistered task definition")) ELSE stdout,
                 calls, IF ok THEN stopCode ELSE 1, containerStatuses)
    /\ UNCHANGED << stdin, descArg, postReq, logStream, emitted, mainVars, running, elapsed, tailVars, lastCC >>

\* L645-L658: DeregisterTaskDefinition answers, then the final record
DeregisterReturns ==
    /\ pc = "deregister"
    /\ \E ok \in BOOLEAN :
        /\ IF ok THEN UNCHANGED errVars ELSE Caught("deregister", "Deregister TD failed")
        /\ Final(IF ok THEN Append(stdout, Line("Deregistered task definition")) ELSE stdout,
                 calls, stopCode, containerStatuses)
    /\ UNCHANGED << stdin, descArg, postReq, logStream, emitted, mainVars, running, elapsed, tailVars, lastCC >>

----------------------------------------------------------------------------
(* streamCwLogsUntilStopped, L392-L465 *)

\* Mutant of TailLoopTop: the loop condition is true, the signal is never read.
TailLoopTop_NeverStops ==
    /\ tailIters < MaxTailIters
    /\ tailIters' = tailIters + 1
    /\ sweepReq' = sweepReq
    /\ IF ~streamFound
       THEN /\ tailPc' = "discover"
            /\ calls' = Called(calls, "tailStreams")
       ELSE /\ tailPc' = "fetch"
            /\ calls' = Called(calls, "tailEvents")

\* Mutant of TailLoopTop: the final fetch repeats the request of the loop, with
\* the configured startFromHead.
TailLoopTop_SweepAsLoopFetch ==
    IF running
    THEN /\ tailIters < MaxTailIters
         /\ tailIters' = tailIters + 1
         /\ sweepReq' = sweepReq
         /\ IF ~streamFound
            THEN /\ tailPc' = "discover"
                 /\ calls' = Called(calls, "tailStreams")
            ELSE /\ tailPc' = "fetch"
                 /\ calls' = Called(calls, "tailEvents")
    ELSE /\ tailPc' = "sweep"
         /\ calls' = Called(calls, "sweep")
         /\ sweepReq' = Append(sweepReq, GetLogEventsReq(nextToken, streamFromHead))
         /\ tailIters' = tailIters

\* Mutant of TailLoopTop: the final fetch is sent without the cursor.
TailLoopTop_SweepWithoutCursor ==
    IF running
    THEN /\ tailIters < MaxTailIters
         /\ tailIters' = tailIters + 1
         /\ sweepReq' = sweepReq
         /\ IF ~streamFound
            THEN /\ tailPc' = "discover"
                 /\ calls' = Called(calls, "tailStreams")
            ELSE /\ tailPc' = "fetch"
                 /\ calls' = Called(calls, "tailEvents")
    ELSE /\ tailPc' = "sweep"
         /\ calls' = Called(calls, "sweep")
         /\ sweepReq' = Append(sweepReq, GetLogEventsReq(0, FALSE))
         /\ tailIters' = tailIters

\* Mutant of TailLoopTop: every iteration of the loop looks the stream up.
TailLoopTop_AlwaysDiscovers ==
    IF running
    THEN /\ tailIters < MaxTailIters
         /\ tailIters' = tailIters + 1
         /\ sweepReq' = sweepReq
         /\ tailPc' = "discover"
         /\ calls' = Called(calls, "tailStreams")
    ELSE /\ tailPc' = "sweep"
         /\ calls' = Called(calls, "sweep")
         /\ sweepReq' = Append(sweepReq, GetLogEventsReq(nextToken, FALSE))
         /\ tailIters' = tailIters

\* L401-L424, L445-L453: the loop condition and the call the tailer makes next
TailLoopTop ==
    IF running
    THEN /\ tailIters < MaxTailIters
         /\ tailIters' = tailIters + 1
         /\ sweepReq' = sweepReq
         /\ IF ~streamFound
            THEN /\ tailPc' = "discover"
                 /\ calls' = Called(calls, "tailStreams")
            ELSE /\ tailPc' = "fetch"
                 /\ calls' = Called(calls, "tailEvents")
    ELSE /\ tailPc' = "sweep"
         /\ calls' = Called(calls, "sweep")
         /\ sweepReq' = Append(sweepReq, GetLogEventsReq(nextToken, FALSE))
         /\ tailIters' = tailIters

\* L404-L416, L439-L441: the tailer's DescribeLogStreams answers
TailStreamsReturns ==
    /\ tailPc = "discover"
    /\ \E resp \in LogStreamsResponses :
        CASE resp = "found" ->
               /\ streamFound' = TRUE
               /\ tailPc' = "fetch"
               /\ calls' = Called(calls, "tailEvents")
               /\ UNCHANGED errVars
          [] resp = "none" ->
               /\ streamFound' = FALSE
               /\ tailPc' = "sleep"
               /\ UNCHANGED << calls, errVars >>
          [] OTHER ->
               /\ tailPc' = "backoff"
               /\ Caught("tail", "(live log tail error)")
               /\ UNCHANGED << streamFound, calls >>
    /\ UNCHANGED << stdin, descArg, postReq, logStream, emitted, pc, stdout, mainVars, running, elapsed, nextToken, tailIters,
                    sweepReq, deregArg, lastCC >>

\* Mutant of TailFetched: the catch block resets the cursor.
TailFetched_ErrorResetsCursor(resp) ==
    IF resp.kind = "error"
    THEN /\ tailPc' = "backoff"
         /\ Caught("tail", "(live log tail error)")
         /\ nextToken' = 0
         /\ UNCHANGED << stdout, emitted >>
    ELSE /\ stdout' = stdout \o LinesOf(Printed(resp.events))
         /\ emitted' = emitted \o MarksOf("tail", Printed(resp.events))
         /\ nextToken' = IF resp.token # 0 /\ resp.token # nextToken THEN resp.token
                          ELSE nextToken
         /\ tailPc' = "sleep"
         /\ UNCHANGED errVars

\* Mutant of TailFetched: a fetch that returns no event clears the cursor.
TailFetched_EmptyPageResetsCursor(resp) ==
    IF resp.kind = "error"
    THEN /\ tailPc' = "backoff"
         /\ Caught("tail", "(live log tail error)")
         /\ UNCHANGED << nextToken, stdout, emitted >>
    ELSE /\ stdout' = stdout \o LinesOf(Printed(resp.events))
         /\ emitted' = emitted \o MarksOf("tail", Printed(resp.events))
         /\ nextToken' = IF resp.events = <<>> THEN 0
                          ELSE IF resp.token # 0 /\ resp.token # nextToken THEN resp.token
                          ELSE nextToken
         /\ tailPc' = "sleep"
         /\ UNCHANGED errVars

\* L426-L442: the events are printed and the cursor moves, or the catch block
TailFetched(resp) ==
    IF resp.kind = "error"
    THEN /\ tailPc' = "backoff"
         /\ Caught("tail", "(live log tail error)")
         /\ UNCHANGED << nextToken, stdout, emitted >>
    ELSE /\ stdout' = stdout \o LinesOf(Printed(resp.events))
         /\ emitted' = emitted \o MarksOf("tail", Printed(resp.events))
         /\ nextToken' = IF resp.token # 0 /\ resp.token # nextToken THEN resp.token
                          ELSE nextToken
         /\ tailPc' = "sleep"
         /\ UNCHANGED errVars

\* L418-L442: the tailer's GetLogEvents answers
TailEventsReturnsFrom(Responses) ==
    /\ tailPc = "fetch"
    /\ \E resp \in Responses : TailFetched(resp)
    /\ UNCHANGED << stdin, descArg, postReq, logStream, pc, mainVars, running, elapsed, streamFound, tailIters,
                    sweepReq, calls, deregArg, lastCC >>

TailEventsReturns == TailEventsReturnsFrom(AnyFetchResponses)

\* L413, L438: sleep(pollSec * 1000) returns
TailSleepReturns ==
    /\ tailPc = "sleep"
    /\ TailLoopTop
    /\ UNCHANGED << stdin, descArg, postReq, logStream, emitted, pc, stdout, mainVars, running, elapsed, nextToken, streamFound,
                    deregArg, lastCC, errVars >>

\* Mutant of TailBackoffReturns: after an error the tailer gives up, it leaves
\* the loop for the final fetch whatever the signal says.
TailBackoffReturns_GivesUp ==
    /\ tailPc = "backoff"
    /\ tailPc' = "sweep"
    /\ calls' = Called(calls, "sweep")
    /\ sweepReq' = Append(sweepReq, GetLogEventsReq(nextToken, FALSE))
    /\ UNCHANGED << stdin, descArg, postReq, logStream, emitted, pc, stdout, mainVars, running, elapsed, nextToken, streamFound,
                    tailIters, deregArg, lastCC, errVars >>

\* L441: sleep(Math.max(pollSec, 3) * 1000) returns
TailBackoffReturns ==
    /\ tailPc = "backoff"
    /\ TailLoopTop
    /\ UNCHANGED << stdin, descArg, postReq, logStream, emitted, pc, stdout, mainVars, running, elapsed, nextToken, streamFound,
                    deregArg, lastCC, errVars >>

\* L454-L461: the events of the final fetch are printed, or its error is swallowed
TailSwept(resp) ==
    IF resp.kind = "error"
    THEN /\ Swallowed("sweep")
         /\ UNCHANGED << stdout, emitted >>
    ELSE /\ stdout' = stdout \o LinesOf(Printed(resp.events))
         /\ emitted' = emitted \o MarksOf("sweep", Printed(resp.events))
         /\ UNCHANGED errVars

\* L446-L461: the final GetLogEvents answers, the tailer returns
TailSweepReturnsFrom(Responses) ==
    /\ tailPc = "sweep"
    /\ \E resp \in Responses : TailSwept(resp)
    /\ tailPc' = "done"
    /\ UNCHANGED << stdin, descArg, postReq, logStream, pc, mainVars, running, elapsed, nextToken, streamFound,
                    tailIters, sweepReq, calls, deregArg, lastCC >>

TailSweepReturns == TailSweepReturnsFrom(AnyFetchResponses)

----------------------------------------------------------------------------
Next ==
    \/ ReadJobFails
    \/ ReadJobThrows
    \/ ReadJobRejects
    \/ ReadJobProceeds
    \/ RegisterReturns
    \/ RunTaskReturns
    \/ DescribeReturns
    \/ PollSleepReturns
    \/ JoinErrReturns
    \/ JoinReturns
    \/ PostStreamsReturns
    \/ PostEventsReturns
    \/ DeregisterReturns
    \/ TailStreamsReturns
    \/ TailEventsReturns
    \/ TailSleepReturns
    \/ TailBackoffReturns
    \/ TailSweepReturns

Spec == Init /\ [][Next]_vars

\* Every pending await is answered: collaborator calls return and sleeps end.
FairSpec == Spec /\ WF_vars(Next)

----------------------------------------------------------------------------
(* The run against a log stream: the task writes events while the run goes   *)
(* on, and the fetches are answered from the stream.                         *)

\* The task logs a line
EventLogged ==
    /\ taskArn # Undefined
    /\ pc # "done"
    /\ Len(logStream) < MaxEvents
    /\ \E m \in Messages : logStream' = Append(logStream, m)
    /\ UNCHANGED << stdin, descArg, postReq, pc, stdout, mainVars, running, elapsed, tailVars, errVars, emitted,
                    calls, deregArg, lastCC >>

\* The containers of the task are not followed here: the responses that list none
LogDescribeReturns ==
    DescribeReturnsFrom({r \in DescribeResponses : r.kind = "task" => r.containers = <<>>})

StoreTailEventsReturns ==
    TailEventsReturnsFrom(StoreFetchResponses(GetLogEventsReq(nextToken, streamFromHead)))

StoreTailSweepReturns == TailSweepReturnsFrom(StoreFetchResponses(sweepReq[1]))

StorePostEventsReturns == PostEventsReturnsFrom(StorePostResponses(postReq[1]))

LogNext ==
    \/ ReadJobProceeds
    \/ RunTaskReturns
    \/ LogDescribeReturns
    \/ PollSleepReturns
    \/ JoinErrReturns
    \/ JoinReturns
    \/ PostStreamsReturns
    \/ StorePostEventsReturns
    \/ TailStreamsReturns
    \/ StoreTailEventsReturns
    \/ TailSleepReturns
    \/ TailBackoffReturns
    \/ StoreTailSweepReturns
    \/ EventLogged

LogSpec == LogInit /\ [][LogNext]_vars

----------------------------------------------------------------------------
(* Properties *)

Ended == pc \in {"done", "crashed"}
Launched == taskArn # Undefined
Codes == {Records[i].code : i \in 1..Len(Records)}
PollOver == pc \in {"join", "joinErr", "postStreams", "postEvents", "deregister", "done"}
LastDescribe(kinds) == lastCC.op = "describe" /\ lastCC.kind \in kinds
SawStopped == LastDescribe({"task"}) /\ lastCC.lastStatus = "STOPPED"
SawNotStopped == LastDescribe({"task"}) /\ lastCC.lastStatus # "STOPPED"
\* the containers of the STOPPED response, as the collaborator sent them
SentContainers == IF lastCC.containers = <<>> THEN <<>> ELSE lastCC.containers[1]

\* C1: no run writes a second RunOutcome record, and a run that has ended (by
\* returning, or by an exception nothing catches) has written exactly one.
C1_ExactlyOneRecord ==
    /\ Len(Records) <= 1
    /\ Ended => Len(Records) = 1

\* C1, the part that holds: a run whose main function returns has written
\* exactly one record, and no run writes two.
C1_OneRecordOnReturn ==
    /\ Len(Records) <= 1
    /\ pc = "done" => Len(Records) = 1

\* C2: when every pending call and sleep returns, every run eventually ends
\* with its RunOutcome record written.
C2_EveryRunEndsWithRecord == <>(pc = "done" /\ Len(Records) = 1)

\* C2, the part that holds: a launched run leaves the poll loop, the join on the
\* tailer completes, and the run ends with its record written, whatever the
\* task reports.
C2_LaunchedRunEnds == Launched ~> (pc = "done" /\ Len(Records) = 1 /\ tailPc \in {"none", "done"})

\* C3: once DescribeTasks has reported STOPPED, the stop code is 0 if every
\* container the response listed has exit code 0 (none listed included), and 1
\* otherwise, an absent exit code counting as not 0; the final record carries it.
C3_StopCodeOfContainers ==
    SawStopped =>
        /\ lastStatus = "STOPPED"
        /\ stopCode = IF \A i \in 1..Len(SentContainers) : SentContainers[i].exitCode = <<0>>
                      THEN 0 ELSE 1
        /\ Codes \subseteq {stopCode}

\* C3 witness: a finished run whose task stopped with one container at exit
\* code 0 and one without an exit code, reported with code 1.
C3_Witness ==
    /\ pc = "done"
    /\ SawStopped
    /\ Len(SentContainers) = 2
    /\ SentContainers[1].exitCode = <<0>>
    /\ SentContainers[2].exitCode = <<>>
    /\ Codes = {1}

\* C4 as claimed: if the timeout has elapsed before any DescribeTasks response
\* reported STOPPED (the clock advances only while the loop sleeps, before that),
\* the stop code the poll loop leaves is 124 (a poll that failed left none).
C4_ElapsedTimeoutGives124 ==
    (PollOver /\ Launched /\ ~LastDescribe({"error", "noTask"}) /\ elapsed > waitTimeoutSec)
        => stopCode = 124

\* C4 amended: if the timeout has elapsed when a DescribeTasks response reports
\* a status other than STOPPED, the poll loop ends there with stop code 124 and
\* the record carries 124, no further DescribeTasks call being made; a response
\* that reports STOPPED gives 0 or 1, also after the timeout has elapsed.
C4_TimeoutAtNonTerminalPoll ==
    /\ (SawNotStopped /\ elapsed > waitTimeoutSec /\ pc # "describe") =>
          /\ stopCode = 124
          /\ PollOver /\ pc # "joinErr"
          /\ Codes \subseteq {124}
    /\ SawStopped => (PollOver /\ stopCode \in {0, 1})

\* C4 witness: a finished run that timed out and reported 124.
C4_Witness ==
    /\ pc = "done"
    /\ SawNotStopped
    /\ elapsed > waitTimeoutSec
    /\ Codes = {124}

\* C5 as claimed: a DescribeTasks API error ends the polling and the record has
\* code 10, and a record with code 10 comes from a DescribeTasks API error only.
C5_Code10OnlyFromApiError ==
    /\ LastDescribe({"error"}) => (pc \in {"joinErr", "done"} /\ Codes = {10})
    /\ 10 \in Codes => LastDescribe({"error"})

\* C5 amended: a DescribeTasks API error ends the polling (no call is pending or
\* made afterwards) and the record has code 10; a record with code 10 comes only
\* from a failure of the poll loop: a DescribeTasks API error, or a response that
\* holds no task.
C5_PollErrorIsFatal ==
    /\ LastDescribe({"error"}) => (pc \in {"joinErr", "done"} /\ Codes = {10})
    /\ 10 \in Codes => LastDescribe({"error", "noTask"})

\* C5 witness: the second DescribeTasks call failed and the run has ended.
C5_Witness ==
    /\ pc = "done"
    /\ LastDescribe({"error"})
    /\ calls.describe = 2
    /\ Codes = {10}

LaunchFailureCode ==
    CASE lastCC.kind = "error" -> 9
      [] lastCC.kind = "ok" /\ lastCC.failures -> 7
      [] OTHER -> 8

\* C6: after a registration failure no RunTask call is made; after a launch
\* failure no DescribeTasks call; after a polling failure no post-run log call
\* and no further control call; the run ends at once with that failure's code.
C6_FatalShortCircuits ==
    /\ (lastCC.op = "register" /\ lastCC.kind = "error") =>
          /\ pc = "done" /\ Codes = {5}
          /\ calls.runTask = 0 /\ calls.describe = 0 /\ calls.deregister = 0
    /\ (lastCC.op = "runTask" /\ ~Launched) =>
          /\ pc = "done" /\ Codes = {LaunchFailureCode}
          /\ calls.describe = 0 /\ calls.deregister = 0
          /\ calls.postStreams = 0 /\ tailPc = "none"
    /\ LastDescribe({"error", "noTask"}) =>
          /\ pc \in {"joinErr", "done"} /\ Codes = {10}
          /\ calls.postStreams = 0 /\ calls.postEvents = 0 /\ calls.deregister = 0

\* C6 witness: a run with post-run logs enabled and a registered definition,
\* ended by a polling failure on its first poll.
C6_Witness ==
    /\ pc = "done"
    /\ LastDescribe({"error", "noTask"})
    /\ tailLogs /\ logGroup # ""
    /\ registeredTaskDefArn # Null /\ ~p.keep_task_definition
    /\ calls.describe = 1

\* The result code as a function of the job parameters and of the last response
\* of the Cluster Control API to register, runTask or describeTask, and of
\* nothing else.
ExpectedCode ==
    CASE lastCC.op = "register" /\ lastCC.kind = "error" -> 5
      [] lastCC.op = "runTask" /\ lastCC.kind = "error" -> 9
      [] lastCC.op = "runTask" /\ lastCC.kind = "ok" /\ lastCC.failures -> 7
      [] lastCC.op = "runTask" /\ lastCC.kind = "ok" /\ ~lastCC.failures -> 8
      [] lastCC.op = "describe" /\ lastCC.kind \in {"error", "noTask"} -> 10
      [] lastCC.op = "describe" /\ lastCC.kind = "task" /\ lastCC.lastStatus # "STOPPED" -> 124
      [] lastCC.op = "describe" /\ lastCC.kind = "task" /\ lastCC.lastStatus = "STOPPED" ->
            IF \E i \in 1..Len(SentContainers) : SentContainers[i].exitCode # <<0>> THEN 1 ELSE 0
      [] OTHER ->
            IF stdin = <<>> THEN 1
            ELSE IF p.ecs_cluster = "" THEN 2
            ELSE IF p.mode = "" /\ p.task_definition = "" THEN 3
            ELSE IF p.mode = "image" /\ p.image = "" THEN 4
            ELSE 6

\* C7: the code of the record is determined by the job and the Cluster Control
\* responses to register, runTask and describeTask: two runs that agree on them
\* report the same code, whether or not a log call or the deregistration failed.
C7_CodeIgnoresNonFatal == Codes \subseteq {ExpectedCode}

\* C7 witness: a successful run in which a log call and the deregistration failed.
C7_Witness ==
    /\ pc = "done"
    /\ absorbed = {"post", "deregister"}
    /\ Codes = {0}

\* C8: a run that registered a task definition and was not asked to keep it has,
\* when it ends, called DeregisterTaskDefinition exactly once for it.
C8_DeregisteredOnEveryPath ==
    (pc = "done" /\ registeredTaskDefArn # Null /\ ~p.keep_task_definition) =>
        deregArg = << registeredTaskDefArn >>

\* C9: RegisterTaskDefinition is called at most once and only in image mode;
\* DeregisterTaskDefinition is never called with the keep flag set, never in
\* task_definition mode, and only for the handle this run's registration returned.
C9_RegisterAndDeregisterGuards ==
    /\ calls.register <= 1
    /\ calls.register > 0 => mode = "image"
    /\ Len(deregArg) = calls.deregister
    /\ calls.deregister > 0 =>
          /\ ~p.keep_task_definition
          /\ mode # "task_definition"
          /\ calls.register = 1
          /\ \A i \in 1..Len(deregArg) :
                deregArg[i] = NewTdArn /\ deregArg[i] = registeredTaskDefArn

\* C9 witness: an image-mode run that has deregistered the definition it registered.
C9_Witness ==
    /\ pc = "done"
    /\ calls.deregister = 1
    /\ mode = "image"
    /\ calls.register = 1
    /\ deregArg = << NewTdArn >>

MissingReference ==
    /\ stdin # <<>>
    /\ mode = "task_definition"
    /\ cluster # ""
    /\ taskDefinition = ""

\* C10: a task_definition-mode job with a cluster and no task definition makes
\* no collaborator call at all, and the record it returns with has code 3.
C10_MissingReference ==
    MissingReference =>
        /\ calls = NoCalls
        /\ runReq = <<>>
        /\ Codes \subseteq {3}
        /\ pc = "done" => Codes = {3}

\* C10 witness: such a job has returned with code 3.
C10_Witness ==
    /\ MissingReference
    /\ pc = "done"
    /\ Codes = {3}

FargateNoSubnets ==
    /\ stdin # <<>>
    /\ launchType = "FARGATE"
    /\ subnets = <<>>

\* C11: a job whose launch type is FARGATE and whose subnet list is empty never
\* sends RunTask, and, when no earlier check and no registration failure has
\* ended it, the record it returns with has code 6.
C11_FargateNeedsSubnets ==
    FargateNoSubnets =>
        /\ calls.runTask = 0
        /\ (pc = "done" /\ Codes \cap {2, 3, 4, 5} = {}) => Codes = {6}

\* C12: a record with a configuration-error code (missing cluster, reference,
\* image or subnets) is written by a run that has made no call at all to the
\* Cluster Control API or to the Log Aggregation API.
C12_ConfigErrorsBeforeAnyCall ==
    Codes \cap {2, 3, 4, 6} # {} => calls = NoCalls

LastRunTask == lastCC.op = "runTask"

\* C13: a RunTask response with no task and a non-empty failure list ends the
\* run at once with code 7; a RunTask API error ends it with code 9 and a
\* response with neither a task handle nor failures with code 8.
C13_LaunchFailureCodes ==
    /\ (LastRunTask /\ lastCC.kind = "ok" /\ lastCC.failures) =>
          (pc = "done" /\ Codes = {7})
    /\ (LastRunTask /\ lastCC.kind = "error") =>
          (pc = "done" /\ Codes = {9})
    /\ (LastRunTask /\ lastCC.kind = "ok" /\ ~lastCC.failures /\ lastCC.taskArn = Undefined) =>
          (pc = "done" /\ Codes = {8})

\* C13 witness: RunTask answered with failures and no task, the run has ended
\* with code 7.
C13_Witness ==
    /\ pc = "done"
    /\ LastRunTask /\ lastCC.kind = "ok"
    /\ lastCC.failures /\ lastCC.taskArn = Undefined
    /\ Codes = {7}

TailCallPending == tailPc \in {"discover", "fetch", "sweep"}
PostRunCallPending == pc \in {"postStreams", "postEvents"}
TailInLoop == tailPc \in {"discover", "fetch", "sleep", "backoff"}

\* C14: a post-run log call is made only when the live tailer, if one was
\* started, has returned, its final fetch answered; a tailer log call and a
\* post-run log call are never pending together.
C14_PostRunAfterTailer ==
    /\ (calls.postStreams > 0 \/ calls.postEvents > 0) => tailPc \in {"none", "done"}
    /\ (calls.postStreams > 0 /\ tailPc = "done") => calls.sweep = 1
    /\ ~(TailCallPending /\ PostRunCallPending)

\* C14 witness: the post-run DescribeLogStreams is pending after a tailer that
\* has fetched events and made its final fetch.
C14_Witness ==
    /\ pc = "postStreams"
    /\ tailPc = "done"
    /\ calls.tailEvents = 1
    /\ calls.sweep = 1

\* C15: the signal is stopped exactly in a launched run whose poll loop has
\* returned (on STOPPED, on the timeout or on an error); it changes only from
\* running to stopped, in the step of the main function that answers the last
\* DescribeTasks and leaves the poll loop, and no step of the tailer changes it.
C15_SignalSetOnceAfterPolling ==
    /\ [](~running <=> (Launched /\ PollOver))
    /\ [][running' # running =>
            /\ running /\ ~running'
            /\ pc = "describe" /\ pc' \notin {"describe", "pollSleep"}
            /\ UNCHANGED tailVars]_vars
    /\ [][tailVars' # tailVars => running' = running]_vars

\* C15 witness: the signal is stopped, the main function waits at the join and
\* the tailer still has a GetLogEvents call of its loop pending.
C15_Witness ==
    /\ ~running
    /\ pc = "join"
    /\ tailPc = "fetch"

\* C16: once the signal is stopped, a started tailer returns, wherever in its
\* loop it is, given that its pending call or sleep returns.
C16_TailerStopsAfterSignal == (~running /\ TailInLoop) ~> (tailPc = "done")

\* C16 witness: the tailer has returned after the signal was stopped, having
\* caught a log error on the way, and the join is about to complete.
C16_Witness ==
    /\ ~running
    /\ tailPc = "done"
    /\ pc \in {"join", "joinErr"}
    /\ "tail" \in absorbed

\* C17: while the signal says running, the tailer is inside its loop: it has not
\* sent the final fetch and has not returned, whatever the log calls answered.
C17_TailerStaysInLoop ==
    (running /\ tailPc # "none") => (TailInLoop /\ calls.sweep = 0)

\* C17 witness: the signal says running and the tailer, after a log error, is in
\* a later iteration of its loop.
C17_Witness ==
    /\ running
    /\ "tail" \in absorbed
    /\ tailIters >= 2
    /\ tailPc = "fetch"

\* C18: the tailer sends its final GetLogEvents exactly when it leaves the loop,
\* once, with startFromHead false and the cursor it holds; when the call is
\* answered the tailer returns, and if the call failed nothing is written and
\* the main function is not touched; a tailer that has returned makes no call.
C18_OneFinalFetch ==
    /\ [](/\ Len(sweepReq) = calls.sweep
          /\ calls.sweep = IF tailPc \in {"sweep", "done"} THEN 1 ELSE 0
          /\ calls.sweep = 1 => sweepReq[1] = GetLogEventsReq(nextToken, FALSE))
    /\ [][(tailPc = "sweep" /\ tailPc' # tailPc) =>
            /\ tailPc' = "done"
            /\ calls' = calls
            /\ "sweep" \in absorbed' =>
                  (stdout' = stdout /\ stderr' = stderr /\ pc' = pc /\ running' = running)]_vars
    /\ [][tailPc = "done" =>
            /\ tailPc' = "done"
            /\ calls'.sweep = 1
            /\ calls'.tailStreams = calls.tailStreams
            /\ calls'.tailEvents = calls.tailEvents]_vars

\* C18 witness: a tailer configured to start from the head has left the loop
\* holding cursor 1, its final fetch (cursor 1, not from the head) has failed,
\* and the tailer has returned.
C18_Witness ==
    /\ tailPc = "done"
    /\ streamFromHead
    /\ "sweep" \in absorbed
    /\ sweepReq = << GetLogEventsReq(1, FALSE) >>

\* C20: a log call of the tailer's loop that fails is caught: the message is
\* written to stderr, the cursor and the stream-found flag keep their values,
\* the main function is not touched and nothing is written to stdout; after the
\* backoff the loop condition is read again, and while the signal says running
\* the tailer makes the call that failed once more (discovery if the stream was
\* not found yet, the fetch otherwise).
C20_TailErrorIsRetried ==
    /\ []("tail" \in absorbed => "(live log tail error)" \in stderr)
    /\ [][(tailPc \in {"discover", "fetch"} /\ tailPc' = "backoff") =>
            /\ "(live log tail error)" \in stderr'
            /\ nextToken' = nextToken /\ streamFound' = streamFound
            /\ streamFound = (tailPc = "fetch")
            /\ pc' = pc /\ stdout' = stdout /\ running' = running /\ calls' = calls]_vars
    /\ [][(tailPc = "backoff" /\ tailPc' # tailPc) =>
            /\ tailPc' = IF ~running THEN "sweep" ELSE IF streamFound THEN "fetch" ELSE "discover"
            /\ nextToken' = nextToken /\ streamFound' = streamFound
            /\ pc' = pc /\ stdout' = stdout]_vars

\* C20 witness: the first GetLogEvents of the loop failed, and the tailer, the
\* signal still saying running, has sent it again in its second iteration while
\* the main function goes on polling.
C20_Witness ==
    /\ running
    /\ pc = "describe"
    /\ tailPc = "fetch"
    /\ tailIters = 2
    /\ streamFound
    /\ absorbed = {"tail"}
    /\ stderr = {"(live log tail error)"}

\* The events a fetch has printed, by their place in the stream
PrintedBy(who) == {emitted[i].id : i \in {j \in 1..Len(emitted) : emitted[j].by = who}}
\* The events the cursor has behind it (none without a cursor)
Behind(token) == IF token # 0 THEN token - 1 ELSE 0
PassingAfter(n) == {i \in (n + 1)..Len(logStream) : shouldPrintLogLine(logStream[i])}

\* C19: when the final fetch of the tailer is answered, the tailer prints, in the
\* order of the stream and once each, exactly the events of the stream that lie
\* after the cursor the loop left (the whole stream if the loop got no cursor)
\* and pass the filter, and nothing if there is none; no event that the loop
\* has printed is printed by the final fetch.
C19_SweepEmitsNewEvents ==
    /\ [][(tailPc = "sweep" /\ tailPc' = "done" /\ "sweep" \notin absorbed') =>
            /\ SubSeq(emitted', 1, Len(emitted)) = emitted
            /\ PrintedBy("sweep")' = PassingAfter(Behind(nextToken))
            /\ Len(emitted') = Len(emitted) + Cardinality(PassingAfter(Behind(nextToken)))
            /\ \A i, j \in (Len(emitted) + 1)..Len(emitted') :
                  i < j => emitted'[i].id < emitted'[j].id
            /\ stdout' = stdout \o [i \in 1..(Len(emitted') - Len(emitted)) |->
                                      Line(logStream[emitted'[Len(emitted) + i].id])]]_vars
    /\ [][(tailPc = "sweep" /\ tailPc' = "done" /\ Len(logStream) = Behind(nextToken)) =>
            (emitted' = emitted /\ stdout' = stdout)]_vars
    /\ [](PrintedBy("tail") \cap PrintedBy("sweep") = {})

\* C19 witness: with an include filter set, the loop has printed the first event
\* and the final fetch the second, which was logged after the loop's last fetch.
C19_Witness ==
    /\ tailPc = "done"
    /\ includeRegex = "a"
    /\ logStream = << "a", "a" >>
    /\ emitted = << [by |-> "tail", id |-> 1], [by |-> "sweep", id |-> 2] >>

NoLogGroup ==
    /\ stdin # <<>>
    /\ logGroup = ""
LogCalls == calls.tailStreams + calls.tailEvents + calls.sweep + calls.postStreams + calls.postEvents
\* the poll loop was left on STOPPED or on the timeout: the run goes to cleanup
CleanupReached == pc \in {"deregister", "done"} /\ LastDescribe({"task"})

PostRunCalled == calls.postStreams > 0 \/ calls.postEvents > 0

\* C22: a post-run log call is made only in a run whose poll loop has seen the
\* task STOPPED, and only with post-run fetching enabled (tail_logs and a log
\* group); a run that ended by the timeout makes none.
C22_PostRunOnlyAfterTerminal ==
    /\ PostRunCalled => (SawStopped /\ tailLogs /\ logGroup # "")
    /\ (Launched /\ PollOver /\ stopCode = 124) => ~PostRunCalled

\* C22, the part that holds: a post-run log call is made only with post-run
\* fetching enabled and only after the poll loop has returned without an error,
\* on STOPPED or on the timeout.
C22_PostRunOnlyAfterPolling ==
    PostRunCalled =>
        /\ tailLogs /\ logGroup # ""
        /\ PollOver /\ pc # "joinErr"
        /\ SawStopped \/ (SawNotStopped /\ stopCode = 124)

\* The lines the filter is asked about: the messages of the stream and one that
\* matches no pattern
Lines == Messages \cup {"c"}
Passes(line) ==
    /\ (includeRegex = "" \/ Test(includeRegex, line))
    /\ (excludeRegex = "" \/ ~Test(excludeRegex, line))
NewMarks == SubSeq(emitted', Len(emitted) + 1, Len(emitted'))
NewIds == {NewMarks[i].id : i \in 1..Len(NewMarks)}
EventLines == {i \in 1..Len(stdout) : "line" \in DOMAIN stdout[i] /\ stdout[i].line \in Messages}

\* C23: with every combination of an include and an exclude pattern, set or
\* not, the filter passes a line exactly if no include pattern is set or it
\* matches, and no exclude pattern is set or it does not match.  Every event
\* line on stdout passes it, and none matches a set exclude pattern, whichever
\* fetch printed it; a fetch of the tailer's loop, the final fetch and the
\* post-run fetch each print exactly the returned events that pass, and only
\* add to what is printed.
C23_LogFilterDecision ==
    /\ [](/\ \A l \in Lines : shouldPrintLogLine(l) <=> Passes(l)
          /\ \A i \in 1..Len(emitted) :
                /\ emitted[i].by \in {"tail", "sweep", "post"}
                /\ Passes(logStream[emitted[i].id])
                /\ excludeRegex # "" => ~Test(excludeRegex, logStream[emitted[i].id])
          /\ \A i \in EventLines :
                /\ Passes(stdout[i].line)
                /\ excludeRegex # "" => ~Test(excludeRegex, stdout[i].line)
          /\ Cardinality(EventLines) = Len(emitted))
    /\ [][(tailPc = "fetch" /\ tailPc' = "sleep") =>
            NewIds = PassingAfter(Behind(nextToken))]_vars
    /\ [][(tailPc = "sweep" /\ tailPc' = "done" /\ "sweep" \notin absorbed') =>
            NewIds = PassingAfter(Behind(nextToken))]_vars
    /\ [][(pc = "postEvents" /\ pc' # pc /\ "post" \notin absorbed') =>
            NewIds = PassingAfter(0) \cap 1..logFetchLimit]_vars
    /\ [][SubSeq(emitted', 1, Len(emitted)) = emitted]_vars

\* C23 witness: with include pattern a and exclude pattern b set, the stream
\* holds a line that matches both and then one that matches the include
\* pattern only, and the post-run fetch has printed the second alone.
C23_Witness ==
    /\ pc = "done"
    /\ includeRegex = "a" /\ excludeRegex = "b"
    /\ logStream = << "ab", "a" >>
    /\ emitted = << [by |-> "post", id |-> 2] >>

\* C24: RunTask is sent at most once in a run, whatever it or a later call
\* answers, and every DescribeTasks call of the run carries one and the same
\* handle, the one the RunTask response held: the handle is taken when RunTask
\* answers and never changes afterwards.
C24_OneLaunchOneHandle ==
    /\ [](/\ calls.runTask <= 1
          /\ Len(runReq) = calls.runTask
          /\ calls.describe = 0 => descArg = {}
          /\ calls.describe > 0 =>
                /\ calls.runTask = 1
                /\ Launched
                /\ descArg = {taskArn})
    /\ [][(pc = "runTask" /\ pc' # pc) =>
            /\ calls'.runTask = calls.runTask
            /\ lastCC'.op = "runTask"
            /\ Launched' => (lastCC'.kind = "ok" /\ taskArn' = lastCC'.taskArn)]_vars
    /\ [][Launched => taskArn' = taskArn]_vars
    /\ [][calls'.runTask # calls.runTask => (calls.runTask = 0 /\ pc \in {"readJob", "register"})]_vars

\* C24 witness: a run has polled its task three times, each time with the
\* handle of its single RunTask call, and has ended on a polling error.
C24_Witness ==
    /\ pc = "done"
    /\ calls.runTask = 1
    /\ calls.describe = 3
    /\ descArg = {TaskArn1}
    /\ LastDescribe({"error"})

\* the tailer has been started and has not returned: a log call of it is
\* pending, or it sleeps between two of them
TailActive == tailPc \notin {"none", "done"}
\* the stages of the main function, by the call that is pending
StageOf(at) ==
    CASE at = "register" -> "registration"
      [] at = "runTask" -> "launch"
      [] at \in {"describe", "pollSleep"} -> "polling"
      [] at \in {"join", "joinErr"} -> "join"
      [] at \in {"postStreams", "postEvents"} -> "postRun"
      [] at = "deregister" -> "cleanup"
      [] OTHER -> "none"

\* C25: the tailer is active only while the main function polls or waits for
\* it: never during registration, launch, post-run fetch or cleanup, and never
\* once the RunOutcome record is written; the stages of the main function
\* follow one another, a call of a later stage being sent only when every call
\* of the earlier ones was answered.
C25_ConcurrencyOnlyPollAndTail ==
    /\ TailActive => StageOf(pc) \in {"polling", "join"}
    /\ TailActive => Len(Records) = 0
    /\ StageOf(pc) \in {"registration", "launch"} => calls.describe = 0
    /\ StageOf(pc) \in {"registration", "launch", "polling", "join"} =>
          (~PostRunCalled /\ calls.deregister = 0)
    /\ StageOf(pc) = "postRun" => calls.deregister = 0
    /\ Len(Records) > 0 => pc \in {"done", "joinErr"}

\* C25, the part that holds: the same, but for the record of a polling
\* failure, which is written while the tailer is still active.
C25_TailerOnlyWhilePollingOrJoin ==
    /\ TailActive => StageOf(pc) \in {"polling", "join"}
    /\ (TailActive /\ Len(Records) > 0) => (pc = "joinErr" /\ Codes = {10})
    /\ StageOf(pc) \in {"registration", "launch"} => calls.describe = 0
    /\ StageOf(pc) \in {"registration", "launch", "polling", "join"} =>
          (~PostRunCalled /\ calls.deregister = 0)
    /\ StageOf(pc) = "postRun" => calls.deregister = 0
    /\ Len(Records) > 0 => pc \in {"done", "joinErr"}

DisappearedRecord ==
    Outcome(10, "Error while waiting for task to stop: DescribeTasks returned no task")
ApiErrorRecord == Outcome(10, "Error while waiting for task to stop: API error")

\* C26: a DescribeTasks response that holds no task ends the polling: the run
\* writes the record of a failure that names the missing task, which is not the
\* record a DescribeTasks API error gives (the two carry the same code 10 and
\* differ in their description), and sends no further DescribeTasks call and no
\* call of a later stage.
C26_MissingTaskIsDistinctFailure ==
    /\ [](/\ LastDescribe({"noTask"}) =>
                /\ pc \in {"joinErr", "done"}
                /\ Records = << DisappearedRecord >>
                /\ ~running
          /\ LastDescribe({"error"}) => Records = << ApiErrorRecord >>
          /\ DisappearedRecord # ApiErrorRecord)
    /\ [][LastDescribe({"noTask"}) =>
            /\ calls'.describe = calls.describe
            /\ calls'.postStreams = 0 /\ calls'.deregister = 0
            /\ Records' = Records]_vars

\* C26 witness: the second DescribeTasks response held no task, and the run has
\* ended with the record that says so.
C26_Witness ==
    /\ pc = "done"
    /\ LastDescribe({"noTask"})
    /\ calls.describe = 2
    /\ Records = << DisappearedRecord >>

InfoLine == Line("(No log stream found)")
InfoLines == {i \in 1..Len(stdout) : stdout[i] = InfoLine}
\* the events within the limit of a fetch from the head that pass the filter
PassingHead(limit) == {i \in 1..Min(limit, Len(logStream)) : shouldPrintLogLine(logStream[i])}

\* C27: the post-run fetch asks once for the log stream.  If one is found it
\* sends exactly one GetLogEvents, from the head and with the configured limit,
\* and prints, in their order, exactly the returned events that pass the
\* filter; if none is found it sends no GetLogEvents, writes the one line that
\* says so to stdout and writes nothing to stderr.
C27_PostRunFetch ==
    /\ [](/\ calls.postStreams <= 1
          /\ calls.postEvents <= calls.postStreams
          /\ Len(postReq) = calls.postEvents
          /\ \A i \in 1..Len(postReq) :
                postReq[i] = [startFromHead |-> TRUE, limit |-> logFetchLimit]
          /\ Cardinality(InfoLines) <= 1
          /\ InfoLines # {} => (calls.postStreams = 1 /\ calls.postEvents = 0
                                 /\ "post" \notin absorbed /\ PrintedBy("post") = {}))
    /\ [][(pc = "postStreams" /\ pc' = "postEvents") =>
            (calls'.postEvents = 1 /\ stdout' = stdout /\ stderr' = stderr)]_vars
    /\ [][(pc = "postEvents" /\ pc' # pc /\ "post" \notin absorbed') =>
            /\ NewIds = PassingHead(logFetchLimit)
            /\ \A i \in 1..Len(NewMarks) :
                  /\ NewMarks[i].by = "post"
                  /\ \A j \in 1..Len(NewMarks) : i < j => NewMarks[i].id < NewMarks[j].id
            /\ Len(NewMarks) = Cardinality(NewIds)
            /\ SubSeq(stdout', 1, Len(stdout) + Len(NewMarks))
                  = stdout \o [i \in 1..Len(NewMarks) |-> Line(logStream[NewMarks[i].id])]
            /\ stderr' = stderr
            /\ calls'.postEvents = 1]_vars
    /\ [][(pc = "postStreams" /\ pc' \notin {"postStreams", "postEvents"}
              /\ "post" \notin absorbed') =>
            /\ calls'.postEvents = 0
            /\ SubSeq(stdout', 1, Len(stdout) + 1) = Append(stdout, InfoLine)
            /\ InfoLines = {}
            /\ stderr' = stderr
            /\ emitted' = emitted]_vars

\* C27 witness: a post-run fetch with limit 1 has found the stream, which held
\* two events then, and has printed the first of them only.
C27_Witness ==
    /\ pc = "done"
    /\ postReq = << [startFromHead |-> TRUE, limit |-> 1] >>
    /\ Len(logStream) = 2
    /\ emitted = << [by |-> "post", id |-> 1] >>
    /\ stderr = {}

\* C27 witness of the other case: no stream was found, the line saying so is on
\* stdout before the record, and no GetLogEvents was sent.
C27_NoStreamWitness ==
    /\ pc = "done"
    /\ calls.postStreams = 1 /\ calls.postEvents = 0
    /\ Cardinality(InfoLines) = 1
    /\ stderr = {}

\* the cursor a fetch of the stream hands out: the one after its last event
StreamEnd == Len(logStream) + 1

\* C28: the cursor of the tailer changes only when a GetLogEvents of the loop is
\* answered without an error, and then to the cursor of the answer, which is
\* not empty, differs from the one held and lies further on in the stream; a
\* failed fetch, a discovery, a sleep and the final fetch leave it as it is, and
\* once set it is never empty again.
C28_CursorOnlyAdvances ==
    /\ [](/\ nextToken \in 0..(MaxEvents + 1)
          /\ nextToken # 0 => (calls.tailEvents = 1 /\ streamFound))
    /\ [][nextToken' # nextToken =>
            /\ tailPc = "fetch" /\ tailPc' = "sleep"
            /\ absorbed' = absorbed
            /\ nextToken' = StreamEnd
            /\ nextToken' # 0
            /\ nextToken' > nextToken]_vars
    /\ [][(tailPc = "fetch" /\ tailPc' = "sleep") =>
            nextToken' = (IF StreamEnd # 0 /\ StreamEnd # nextToken THEN StreamEnd ELSE nextToken)]_vars
    /\ [][(tailPc \in {"sweep", "discover", "sleep", "backoff", "done"} \/ tailPc' = "backoff") =>
            nextToken' = nextToken]_vars

\* C28 witness: the cursor has advanced twice in the loop, to the place after
\* the first event; the second event came later, the final fetch failed, and
\* the cursor is where the loop left it.
C28_Witness ==
    /\ tailPc = "done"
    /\ nextToken = 2
    /\ tailIters = 2
    /\ Len(logStream) = 2
    /\ "sweep" \in absorbed

\* The state of the tailer's state machine (spec section 4.3): it discovers
\* until a stream is found, streams while it loops with a stream, is stopping
\* when it has left the loop and its final fetch is pending, and is done when
\* it has returned
TailState ==
    CASE tailPc = "none" -> "IDLE"
      [] tailPc = "done" -> "DONE"
      [] tailPc = "sweep" -> "STOPPING"
      [] tailPc \notin {"none", "done", "sweep"} /\ streamFound -> "STREAMING"
      [] OTHER -> "DISCOVERING"
StateRank(state) ==
    CASE state = "IDLE" -> 0
      [] state = "DISCOVERING" -> 1
      [] state = "STREAMING" -> 2
      [] state = "STOPPING" -> 3
      [] OTHER -> 4
NeverBack == [][StateRank(TailState') >= StateRank(TailState)]_vars
NoDiscoveryOnceFound ==
    /\ [](tailPc = "discover" => ~streamFound)
    /\ [][streamFound => (streamFound' /\ tailPc' # "discover")]_vars

\* C29 as claimed: the tailer never goes back to an earlier state, sends no
\* discovery call once a stream was found, and sends a GetLogEvents, that of
\* the final fetch included, only when a stream has been found.
C29_TailerStateOrder ==
    /\ NeverBack
    /\ NoDiscoveryOnceFound
    /\ []((calls.tailEvents > 0 \/ calls.sweep > 0) => streamFound)

\* C29 amended: the tailer never goes back to an earlier state, sends no
\* discovery call once a stream was found, and sends the GetLogEvents of its
\* loop only when a stream has been found; the final fetch is sent when the
\* loop is left, also by a tailer that was stopped before it found a stream.
C29_FinalFetchAlsoWithoutStream ==
    /\ NeverBack
    /\ NoDiscoveryOnceFound
    /\ []((calls.tailEvents > 0 \/ tailPc = "fetch") => streamFound)
    /\ [](TailState \in {"STOPPING", "DONE"} <=> calls.sweep = 1)
    /\ [][(TailState = "DISCOVERING" /\ TailState' # TailState) =>
            TailState' \in {"STREAMING", "STOPPING"}]_vars
    /\ [][(TailState = "STREAMING" /\ TailState' # TailState) => TailState' = "STOPPING"]_vars
    /\ [][(TailState = "STOPPING" /\ TailState' # TailState) => TailState' = "DONE"]_vars

\* C29 witness: a tailer that was stopped while it was still discovering has
\* made its final fetch and returned, without a stream and without a fetch in
\* the loop.
C29_Witness ==
    /\ TailState = "DONE"
    /\ ~streamFound
    /\ calls.tailStreams = 1
    /\ calls.tailEvents = 0
    /\ calls.sweep = 1
    /\ tailIters = 2

\* C30: a RunTask request carries a networkConfiguration exactly if its launch
\* type is FARGATE; a run ends with code 6 exactly if its launch type is FARGATE,
\* it has no subnets and no earlier check or registration failure has ended it;
\* with another launch type there is no networkConfiguration and no code 6.
C30_NetworkingIffFargate ==
    /\ \A i \in 1..Len(runReq) :
          runReq[i].networkConfiguration <=> (runReq[i].launchType = "FARGATE")
    /\ 6 \in Codes => (launchType = "FARGATE" /\ subnets = <<>>)
    /\ (stdin # <<>> /\ pc = "done" /\ Codes \cap {2, 3, 4, 5} = {}
           /\ launchType = "FARGATE" /\ subnets = <<>>) => Codes = {6}

\* C30, the part that holds: the same with the required compatibility (L377:
\* requires_compatibilities, or the launch type when it is not given) in the
\* place of the launch type.
C30_NetworkingFollowsCompatibilities ==
    /\ \A i \in 1..Len(runReq) :
          runReq[i].networkConfiguration <=> (requiresCompatibilities = "FARGATE")
    /\ 6 \in Codes => (requiresCompatibilities = "FARGATE" /\ subnets = <<>>)
    /\ (stdin # <<>> /\ pc = "done" /\ Codes \cap {2, 3, 4, 5} = {}
           /\ requiresCompatibilities = "FARGATE" /\ subnets = <<>>) => Codes = {6}
    /\ (stdin # <<>> /\ p.requires_compatibilities = "") =>
          (requiresCompatibilities = launchType)

\* C31: the stop code is 124 only after a DescribeTasks response that reported
\* a status other than STOPPED at a time strictly past the timeout, so after at
\* least one DescribeTasks call; the record carries 124 only then, and once the
\* stop code is 124 no further DescribeTasks call is made.
C31_TimeoutOnlyPastTheLimit ==
    /\ [](/\ stopCode = 124 =>
                /\ SawNotStopped
                /\ elapsed > waitTimeoutSec
                /\ calls.describe >= 1 /\ descArg = {taskArn}
                /\ PollOver /\ pc # "joinErr"
          /\ 124 \in Codes => stopCode = 124)
    /\ [][stopCode = 124 => (calls'.describe = calls.describe /\ stopCode' = 124)]_vars
    /\ [][(stopCode # 124 /\ stopCode' = 124) =>
            (pc = "describe" /\ elapsed' = elapsed /\ elapsed > waitTimeoutSec)]_vars

\* C31 witness: a run polled at time 0, polled again when the elapsed time was
\* equal to the timeout and went on, and decided on the timeout at its third
\* poll, past the limit.
C31_Witness ==
    /\ pc = "done"
    /\ Codes = {124}
    /\ calls.describe = 3
    /\ elapsed = waitTimeoutSec + 1

HasDetails(r) == r.details # <<>>

\* C32: every RunOutcome record the run writes has the completion marker, a
\* numeric code and a details object that holds the task handle and the
\* container results.
C32_EveryRecordHasDetails ==
    \A i \in 1..Len(Records) :
        /\ Records[i].complete = 1
        /\ Records[i].code \in Nat
        /\ HasDetails(Records[i])
        /\ Records[i].details[1].taskArn = taskArn
        /\ Records[i].details[1].containers = containerStatuses

\* C32, the part that holds: every record has the completion marker and a
\* numeric code; the record of a run that left the poll loop on STOPPED or on
\* the timeout has the details object, with the handle of the launched task and
\* the container results of the STOPPED response (none after a timeout); the
\* records of the failures before that have none.
C32_DetailsOnlyInFinalRecord ==
    \A i \in 1..Len(Records) :
        /\ Records[i].complete = 1
        /\ Records[i].code \in Nat
        /\ HasDetails(Records[i]) <=> (Launched /\ LastDescribe({"task"}))
        /\ HasDetails(Records[i]) =>
              /\ Records[i].code \in {0, 1, 124}
              /\ Records[i].details[1].taskArn = taskArn
              /\ Records[i].details[1].containers = containerStatuses
              /\ SawNotStopped => containerStatuses = <<>>

RecordPlaces == {i \in 1..Len(stdout) : IsRecord(stdout[i])}

\* C33: nothing follows the RunOutcome record on stdout: no line of the tailer,
\* no line of the post-run fetch and no deregistration message.
C33_RecordIsLast == \A i \in RecordPlaces : i = Len(stdout)

\* C33, the part that holds: the record is the last thing the main function
\* writes, and only the record of a polling failure can be followed by
\* anything: by event lines of a tailer that was still running.
C33_OnlyTailLinesAfterRecord ==
    \A i \in RecordPlaces :
        /\ pc \in {"done", "joinErr"}
        /\ i # Len(stdout) =>
              /\ stdout[i].code = 10
              /\ tailPc # "none"
              /\ \A j \in (i + 1)..Len(stdout) : j \in EventLines

\* C34: the code of a record is 0, one of 1..10, or 124.  It is 0 only if a
\* DescribeTasks response reported STOPPED with exit code 0 for every container
\* it listed; it is 124 only if no DescribeTasks response of the run reported
\* STOPPED: a response that reports STOPPED is the last one of the run.
C34_CodeRanges ==
    /\ [](/\ Codes \subseteq ({0, 124} \cup 1..10)
          /\ 0 \in Codes =>
                /\ SawStopped /\ lastStatus = "STOPPED"
                /\ \A i \in 1..Len(SentContainers) : SentContainers[i].exitCode = <<0>>
          /\ 124 \in Codes =>
                /\ SawNotStopped /\ lastStatus # "STOPPED"
                /\ calls.describe >= 1)
    /\ [][SawStopped => (lastCC' = lastCC /\ calls'.describe = calls.describe)]_vars
    /\ [][lastStatus = "STOPPED" => lastStatus' = "STOPPED"]_vars

\* C34 witness: a run has ended with code 0 after a STOPPED response that
\* listed two containers, both with exit code 0.
C34_Witness ==
    /\ pc = "done"
    /\ Codes = {0}
    /\ SawStopped
    /\ Len(SentContainers) = 2

RunTaskGaveTask == LastRunTask /\ lastCC.kind = "ok" /\ lastCC.taskArn # Undefined

\* C35 as claimed: a RunTask response that holds a task handle is followed by
\* the polling of that task, also when it holds failures.
C35_LaunchedTaskIsPolled ==
    RunTaskGaveTask =>
        /\ pc = "describe"
        /\ descArg = {lastCC.taskArn}

\* C35 amended: a RunTask response that holds a task handle and no failure is
\* followed at once by the first DescribeTasks for that handle, and a run that
\* has taken a handle has polled it; a response that holds failures ends the
\* run with code 7 and without a DescribeTasks call, also when it holds a task
\* handle.
C35_PolledUnlessFailuresReported ==
    /\ (RunTaskGaveTask /\ ~lastCC.failures) =>
          /\ pc = "describe"
          /\ taskArn = lastCC.taskArn
          /\ descArg = {lastCC.taskArn}
          /\ Records = <<>>
    /\ (LastRunTask /\ lastCC.kind = "ok" /\ lastCC.failures) =>
          /\ pc = "done"
          /\ Codes = {7}
          /\ ~Launched
          /\ calls.describe = 0 /\ descArg = {}
    /\ Launched => (calls.describe >= 1 /\ descArg = {taskArn})

\* C35 witness: RunTask answered with a task handle and with failures, and the
\* run has ended with code 7 without polling.
C35_Witness ==
    /\ RunTaskGaveTask
    /\ lastCC.failures
    /\ pc = "done"
    /\ Codes = {7}
    /\ calls.describe = 0

ImageMode == stdin # <<>> /\ mode = "image"

C36_FallsBackOnlyWithoutHandle ==
    ImageMode =>
        /\ calls.runTask >= 1 => (calls.register = 1 /\ pc # "register")
        /\ \A i \in 1..Len(runReq) :
              runReq[i].taskDefinition =
                  IF registeredTaskDefArn # Null THEN registeredTaskDefArn ELSE taskDefinition
        /\ registeredTaskDefArn \in {Null, NewTdArn}
        /\ (lastCC.op = "register" /\ lastCC.kind = "error") => (runReq = <<>> /\ Codes = {5})

====
